---- MODULE Spec2Model ----
(***************************************************************************)
(* Reference-desk tally board (src/ReferenceTally.jsx).                   *)
(*                                                                         *)
(* The model has the hosted document store (one document per date id,     *)
(* with its committed versions), and a number of browser sessions, each   *)
(* an instance of the App component: its React state, its live listener,  *)
(* its handleCount transactions in flight and its weekly queries in       *)
(* flight.  Calendar dates are day numbers; the ISO date strings of the   *)
(* code compare (localeCompare) in the order of the day numbers.          *)
(***************************************************************************)
EXTENDS Integers, Sequences, FiniteSets, TLC

VARIABLES
    clock,        \* the current calendar day (new Date())
    store,        \* date id -> document data, for the documents that exist
    commits,      \* date id -> sequence of committed writes (version k = commits[d][k])
    cl,           \* client -> React state of the App component
    listeners,    \* client -> active onSnapshot registrations
    txns,         \* handleCount calls whose transaction is in flight
    fetches,      \* client -> fetchWeeklySummary calls whose query is in flight
    budget,       \* what the run may still do: the handleCount calls to come, the
                  \* last day the clock reaches, the weekly queries in flight at once
    lastOp,       \* client -> the callback that last ran in the mounted component
    lastDelivery, \* client -> date and version of the last snapshot delivered
    unsubscribed, \* client -> dates whose listener has been unsubscribed
    calc          \* input and output of the pure function under evaluation

vars == <<clock, store, commits, cl, listeners, txns, fetches, budget,
          lastOp, lastDelivery, unsubscribed, calc>>

(***************************************************************************)
(* Bounds                                                                  *)
(***************************************************************************)
Clients == {"c1", "c2"}
MaxDate == 2
MaxClicks == 2
MaxFetches == 2
MaxAppClicks == 1
NumClickTypes == 2
NumDates == 9

AllDates == 1..NumDates

(***************************************************************************)
(* Category registry and documents                                         *)
(***************************************************************************)
QUESTION_TYPES ==
    <<"directional", "quick_fact", "procedural", "research", "technology">>

TypeIds == {QUESTION_TYPES[i] : i \in 1..Len(QUESTION_TYPES)}

ClickTypes == {QUESTION_TYPES[i] : i \in 1..NumClickTypes}

\* runTransaction gives up after this many attempts (the SDK default)
MaxAttempts == 5

EmptyObj == [k \in {} |-> 0]

\* QUESTION_TYPES.reduce((acc, type) => ({ ...acc, [type.id]: 0 }), {})
ZeroCounts == [t \in TypeIds |-> 0]

\* obj[key] || 0
FieldOr0(obj, key) == IF key \in DOMAIN obj THEN obj[key] ELSE 0

RECURSIVE SumTypes(_, _)
SumTypes(obj, i) ==
    IF i = 0 THEN 0 ELSE FieldOr0(obj, QUESTION_TYPES[i]) + SumTypes(obj, i - 1)

\* the sum of the category fields of a document
DocTotal(obj) == SumTypes(obj, Len(QUESTION_TYPES))

Version(d) == Len(commits[d])

\* the data of document d at version v (version 0: no document)
SnapshotAt(d, v) == IF v = 0 THEN EmptyObj ELSE commits[d][v].data

\* NewDocData without the spread of initialData
NewDocDataNoInitial(typeId, userId, today, now) ==
    [createdAt |-> now, lastUpdatedBy |-> userId, date |-> today] @@ (typeId :> 1)

\* transaction.set(docRef, {...initialData, [typeId]: 1, createdAt, lastUpdatedBy, date})
NewDocData(typeId, userId, today, now) ==
    [createdAt |-> now, lastUpdatedBy |-> userId, date |-> today]
        @@ (typeId :> 1) @@ ZeroCounts

\* transaction.update(docRef, {[typeId]: increment(1), lastUpdatedBy, updatedAt})
UpdatedDocData(data, typeId, userId, now) ==
    [lastUpdatedBy |-> userId, updatedAt |-> now]
        @@ (typeId :> (FieldOr0(data, typeId) + 1)) @@ data

\* TxWrite taking the creating branch whatever it read
TxWriteAlwaysSet(readVer, data, typeId, userId, today, now) ==
    NewDocData(typeId, userId, today, now)

\* the write the update function of handleCount issues, by what it read
TxWrite(readVer, data, typeId, userId, today, now) ==
    IF readVer = 0
        THEN NewDocData(typeId, userId, today, now)
        ELSE UpdatedDocData(data, typeId, userId, now)

\* a commit that carries no precondition
TxPreconditionNone(d, readVer) == TRUE

\* the precondition the transaction's commit carries for the document it read
TxPrecondition(d, readVer) == Version(d) = readVer

(***************************************************************************)
(* The App component                                                       *)
(***************************************************************************)
NoError == "null"
ErrInit == "Failed to initialize the app. Check console for details."
ErrListen == "Could not load real-time data."
ErrNoDb == "Database not connected."
ErrCount == "Failed to record count. Please check connection."
ErrWeekly == "Failed to load weekly report data."

\* the useState initial values, and the first render
InitClient ==
    [db |-> FALSE, isAuthReady |-> FALSE, userId |-> "null",
     dailyCounts |-> EmptyObj, weeklySummary |-> <<>>,
     loading |-> TRUE, error |-> NoError,
     TODAY_DATE |-> 1, mounted |-> TRUE]

\* onSnapshot(docRef, ...) registers a listener on the day's document
Subscribe(d) == [date |-> d, seen |-> Version(d), delivered |-> FALSE]

\* an unsubscribe that leaves the listener registered
UnsubscribeNoop(ls, d) == ls

\* the unsubscribe function onSnapshot returned for date d
Unsubscribe(ls, d) == {l \in ls : l.date # d}

\* OnSnapshotNext with the empty object for the absent document
OnSnapshotNextEmpty(exists, data) == IF exists THEN data ELSE EmptyObj

\* the value the success callback of onSnapshot passes to setDailyCounts
OnSnapshotNext(exists, data) == IF exists THEN data ELSE ZeroCounts

\* the state updates of the handlers, on the component state st
InitDone(st) == [st EXCEPT !.db = TRUE]

InitFailed(st) == [st EXCEPT !.error = ErrInit, !.loading = FALSE]

AuthChanged(st, uid) ==
    [st EXCEPT !.userId = uid, !.isAuthReady = TRUE, !.loading = FALSE]

SnapshotNext(st, exists, data) ==
    [st EXCEPT !.dailyCounts = OnSnapshotNext(exists, data)]

SnapshotError(st) == [st EXCEPT !.error = ErrListen]

CountNoDb(st) == [st EXCEPT !.error = ErrNoDb]

\* CountResolved without setError(null)
CountResolvedKeeps(st) == st

CountResolved(st) == [st EXCEPT !.error = NoError]

\* CountRejected without setError
CountRejectedSilent(st) == st

CountRejected(st) == [st EXCEPT !.error = ErrCount]

\* FetchRejected that also clears the summary
FetchRejectedClears(st) ==
    [st EXCEPT !.error = ErrWeekly, !.loading = FALSE, !.weeklySummary = <<>>]

FetchRejected(st) == [st EXCEPT !.error = ErrWeekly, !.loading = FALSE]

\* the smallest free slot of an in-flight set
FreeId(used, max) == CHOOSE i \in 1..max : i \notin used /\ \A j \in 1..(i - 1) : j \in used

(***************************************************************************)
(* A state update of client c followed by the render it causes and the    *)
(* effects whose dependencies changed.  new is the state the handler      *)
(* set, dcSet tells whether it called setDailyCounts, fs and ls are the   *)
(* client's queries in flight and listeners as the handler left them.     *)
(***************************************************************************)
ListenerDepsChanged(old, r) ==
    <<old.db, old.isAuthReady, old.TODAY_DATE>> # <<r.db, r.isAuthReady, r.TODAY_DATE>>

\* FetchDepsChanged without dailyCounts among the dependencies
FetchDepsChangedNoCounts(old, r, dcSet) ==
    old.db # r.db \/ old.isAuthReady # r.isAuthReady

FetchDepsChanged(old, r, dcSet) ==
    dcSet \/ old.db # r.db \/ old.isAuthReady # r.isAuthReady

\* effect 2: cleanup of the previous run, then the new registration
ListenerEffect(old, r, ls) ==
    IF ~ListenerDepsChanged(old, r) THEN ls
    ELSE LET cleaned == Unsubscribe(ls, old.TODAY_DATE)
         IN  IF ~r.db \/ ~r.isAuthReady THEN cleaned
             ELSE cleaned \cup {Subscribe(r.TODAY_DATE)}

\* the dates whose unsubscribe the cleanup of effect 2 ran
CleanedDates(old, r) ==
    IF ListenerDepsChanged(old, r) /\ old.db /\ old.isAuthReady
        THEN {old.TODAY_DATE} ELSE {}

\* React renders again when a state setter was given a new value
Renders(old, new, dcSet) == dcSet \/ new # old

Update(c, new, dcSet, fs, ls, op) ==
    IF ~cl[c].mounted
    THEN /\ UNCHANGED <<cl, listeners, lastOp, unsubscribed>>
         /\ fetches' = [fetches EXCEPT ![c] = fs]
    ELSE IF ~Renders(cl[c], new, dcSet)
    THEN /\ UNCHANGED <<cl, unsubscribed>>
         /\ listeners' = [listeners EXCEPT ![c] = ls]
         /\ fetches' = [fetches EXCEPT ![c] = fs]
         /\ lastOp' = [lastOp EXCEPT ![c] = op]
    ELSE LET old == cl[c]
             r == [new EXCEPT !.TODAY_DATE = clock]
             fetchRun == FetchDepsChanged(old, r, dcSet) /\ r.isAuthReady /\ r.db
             ids == {f.id : f \in fs}
         IN  /\ fetchRun => Cardinality(fs) < budget.fetches
             /\ cl' = [cl EXCEPT ![c] =
                         IF fetchRun THEN [r EXCEPT !.loading = TRUE] ELSE r]
             /\ listeners' = [listeners EXCEPT ![c] = ListenerEffect(old, r, ls)]
             /\ unsubscribed' = [unsubscribed EXCEPT ![c] = @ \cup CleanedDates(old, r)]
             /\ fetches' = [fetches EXCEPT ![c] =
                         IF fetchRun
                         THEN fs \cup {[id |-> FreeId(ids, MaxFetches),
                                        phase |-> "sent", result |-> <<>>]}
                         ELSE fs]
             /\ lastOp' = [lastOp EXCEPT ![c] = op]

(***************************************************************************)
(* Effect 1: Firebase initialisation and the auth state callback           *)
(***************************************************************************)
\* the buttons are rendered unless (loading && !isAuthReady)
UiVisible(c) == cl[c].mounted /\ ~(cl[c].loading /\ ~cl[c].isAuthReady)

\* the mount effect has not run yet
BeforeMountEffect(c) == cl[c].mounted /\ ~cl[c].db /\ cl[c].loading

InitFirebase(c) ==
    /\ BeforeMountEffect(c)
    /\ Update(c, InitDone(cl[c]), FALSE, fetches[c], listeners[c], "init")
    /\ UNCHANGED <<calc, clock, store, commits, txns, budget, lastDelivery>>

InitFirebaseFail(c) ==
    /\ BeforeMountEffect(c)
    /\ Update(c, InitFailed(cl[c]), FALSE, fetches[c], listeners[c], "initFail")
    /\ UNCHANGED <<calc, clock, store, commits, txns, budget, lastDelivery>>

\* the onAuthStateChanged callback, once the user is known
AuthStateChanged(c) ==
    /\ cl[c].mounted /\ cl[c].db
    /\ Update(c, AuthChanged(cl[c], c), FALSE, fetches[c], listeners[c], "auth")
    /\ UNCHANGED <<calc, clock, store, commits, txns, budget, lastDelivery>>

(***************************************************************************)
(* Effect 2: the live listener of the day's document                       *)
(***************************************************************************)
\* the versions the next delivery to listener l can carry
Deliverable(l) ==
    IF l.delivered THEN (l.seen + 1)..Version(l.date) ELSE l.seen..Version(l.date)

Deliver(c, l, v) ==
    /\ cl[c].mounted
    /\ l \in listeners[c]
    /\ v \in Deliverable(l)
    /\ Update(c, SnapshotNext(cl[c], v > 0, SnapshotAt(l.date, v)),
              TRUE, fetches[c],
              (listeners[c] \ {l}) \cup {[l EXCEPT !.seen = v, !.delivered = TRUE]},
              "deliver")
    /\ lastDelivery' = [lastDelivery EXCEPT ![c] = [date |-> l.date, ver |-> v]]
    /\ UNCHANGED <<calc, clock, store, commits, txns, budget>>

\* the error callback of onSnapshot; the store ends the listener
ListenerError(c, l) ==
    /\ cl[c].mounted
    /\ l \in listeners[c]
    /\ Update(c, SnapshotError(cl[c]), FALSE, fetches[c],
              listeners[c] \ {l}, "listenErr")
    /\ UNCHANGED <<calc, clock, store, commits, txns, budget, lastDelivery>>

(***************************************************************************)
(* handleCount and its transaction                                         *)
(***************************************************************************)
TxIds(c) == {t.id : t \in {u \in txns : u.client = c}}

HandleCount(c, typeId) ==
    /\ UiVisible(c)
    /\ IF ~cl[c].db
       THEN /\ Update(c, CountNoDb(cl[c]), FALSE, fetches[c],
                      listeners[c], "noDb")
            /\ UNCHANGED <<txns, budget>>
       ELSE /\ budget.clicks > 0
            /\ budget' = [budget EXCEPT !.clicks = @ - 1]
            /\ txns' = txns \cup {[client |-> c, id |-> FreeId(TxIds(c), MaxClicks),
                                   typeId |-> typeId, date |-> cl[c].TODAY_DATE,
                                   userId |-> cl[c].userId, phase |-> "get",
                                   readVer |-> 0, attempts |-> 1]}
            /\ UNCHANGED <<cl, listeners, fetches, lastOp, unsubscribed>>
    /\ UNCHANGED <<calc, clock, store, commits, lastDelivery>>

\* transaction.get(docRef)
TxGet(t) ==
    /\ t \in txns /\ t.phase = "get"
    /\ txns' = (txns \ {t}) \cup {[t EXCEPT !.phase = "commit", !.readVer = Version(t.date)]}
    /\ UNCHANGED <<calc, clock, store, commits, cl, listeners, fetches, budget,
                   lastOp, lastDelivery, unsubscribed>>

\* the commit of the transaction at the store, or its retry on conflict
TxCommit(t) ==
    /\ t \in txns /\ t.phase = "commit"
    /\ IF TxPrecondition(t.date, t.readVer)
       THEN LET data == TxWrite(t.readVer, SnapshotAt(t.date, t.readVer), t.typeId,
                                t.userId, t.date, clock)
            IN  /\ store' = (t.date :> data) @@ store
                /\ commits' = [commits EXCEPT ![t.date] =
                                 Append(@, [data |-> data, typeId |-> t.typeId,
                                            client |-> t.client, attempts |-> t.attempts])]
                /\ txns' = (txns \ {t}) \cup {[t EXCEPT !.phase = "committed"]}
       ELSE /\ txns' = (txns \ {t}) \cup
                         {IF t.attempts < MaxAttempts
                            THEN [t EXCEPT !.phase = "get", !.attempts = @ + 1]
                            ELSE [t EXCEPT !.phase = "failed"]}
            /\ UNCHANGED <<store, commits>>
    /\ UNCHANGED <<calc, clock, cl, listeners, fetches, budget, lastOp, lastDelivery,
                   unsubscribed>>

\* runTransaction resolved: setError(null)
TxResolve(t) ==
    /\ t \in txns /\ t.phase = "committed"
    /\ txns' = txns \ {t}
    /\ Update(t.client, CountResolved(cl[t.client]), FALSE,
              fetches[t.client], listeners[t.client], "countOk")
    /\ UNCHANGED <<calc, clock, store, commits, budget, lastDelivery>>

\* runTransaction rejected (connection lost, or retries exhausted): the catch
TxFail(t) ==
    /\ t \in txns /\ t.phase \in {"get", "commit", "failed"}
    /\ txns' = txns \ {t}
    /\ Update(t.client, CountRejected(cl[t.client]), FALSE,
              fetches[t.client], listeners[t.client], "countFail")
    /\ UNCHANGED <<calc, clock, store, commits, budget, lastDelivery>>

(***************************************************************************)
(* fetchWeeklySummary                                                      *)
(***************************************************************************)
\* limit(7)
WeeklyLimit == 7

\* query(collectionRef, orderBy('date', 'desc'), limit(n)) on the store
RECURSIVE QueryDesc(_, _, _)
QueryDesc(st, ids, n) ==
    IF n = 0 \/ ids = {} THEN <<>>
    ELSE LET m == CHOOSE i \in ids : \A j \in ids : st[j].date <= st[i].date
         IN  <<[id |-> m, data |-> st[m]]>> \o QueryDesc(st, ids \ {m}, n - 1)

QueryRecent(st, n) == QueryDesc(st, {i \in DOMAIN st : "date" \in DOMAIN st[i]}, n)

\* querySnapshot.forEach(doc => weeklyData.push({date: doc.id, ...doc.data()}))
RECURSIVE PushEntries(_)
PushEntries(docs) ==
    IF docs = <<>> THEN <<>>
    ELSE <<Head(docs).data @@ [date |-> Head(docs).id]>> \o PushEntries(Tail(docs))

\* insertion of entry e into a sequence sorted ascending by date
RECURSIVE InsertByDate(_, _)
InsertByDate(e, s) ==
    IF s = <<>> THEN <<e>>
    ELSE IF e.date < Head(s).date THEN <<e>> \o s
    ELSE <<Head(s)>> \o InsertByDate(e, Tail(s))

\* weeklyData.sort((a, b) => a.date.localeCompare(b.date))
RECURSIVE SortByDate(_)
SortByDate(s) ==
    IF s = <<>> THEN <<>>
    ELSE InsertByDate(s[Len(s)], SortByDate(SubSeq(s, 1, Len(s) - 1)))

\* WeeklyData without the sort
WeeklyDataUnsorted(docs) == PushEntries(docs)

\* the value fetchWeeklySummary passes to setWeeklySummary
WeeklyData(docs) == SortByDate(PushEntries(docs))

\* the state updates at the end of the try block
FetchResolved(st, docs) ==
    [st EXCEPT !.weeklySummary = WeeklyData(docs), !.loading = FALSE]

\* getDocs(q) is answered by the store
FetchQuery(c, f) ==
    /\ f \in fetches[c] /\ f.phase = "sent"
    /\ fetches' = [fetches EXCEPT ![c] =
                     (@ \ {f}) \cup {[f EXCEPT !.phase = "replied",
                                               !.result = QueryRecent(store, WeeklyLimit)]}]
    /\ UNCHANGED <<calc, clock, store, commits, cl, listeners, txns, budget, lastOp,
                   lastDelivery, unsubscribed>>

\* the rest of the try block
FetchDone(c, f) ==
    /\ f \in fetches[c] /\ f.phase = "replied"
    /\ Update(c, FetchResolved(cl[c], f.result),
              FALSE, fetches[c] \ {f}, listeners[c], "fetchOk")
    /\ UNCHANGED <<calc, clock, store, commits, txns, budget, lastDelivery>>

\* getDocs rejected: the catch block
FetchFail(c, f) ==
    /\ f \in fetches[c]
    /\ Update(c, FetchRejected(cl[c]),
              FALSE, fetches[c] \ {f}, listeners[c], "fetchFail")
    /\ UNCHANGED <<calc, clock, store, commits, txns, budget, lastDelivery>>

(***************************************************************************)
(* Renders without a state change of the model, unmount, and the clock     *)
(***************************************************************************)
\* a render caused by setHoveredType or setIsPrinting after midnight
Rerender(c) ==
    /\ UiVisible(c)
    /\ clock # cl[c].TODAY_DATE
    /\ Update(c, [cl[c] EXCEPT !.TODAY_DATE = clock], FALSE, fetches[c], listeners[c],
              lastOp[c])
    /\ UNCHANGED <<calc, clock, store, commits, txns, budget, lastDelivery>>

\* the cleanups of the effects; later state updates of the component are ignored
Unmount(c) ==
    /\ cl[c].mounted
    /\ cl' = [cl EXCEPT ![c].mounted = FALSE]
    /\ listeners' = [listeners EXCEPT ![c] = Unsubscribe(@, cl[c].TODAY_DATE)]
    /\ unsubscribed' = [unsubscribed EXCEPT ![c] =
                          IF cl[c].db /\ cl[c].isAuthReady
                          THEN @ \cup {cl[c].TODAY_DATE} ELSE @]
    /\ fetches' = [fetches EXCEPT ![c] = {}]
    /\ UNCHANGED <<calc, clock, store, commits, txns, budget, lastOp, lastDelivery>>

Tick ==
    /\ clock < budget.lastDay
    /\ clock' = clock + 1
    /\ UNCHANGED <<calc, store, commits, cl, listeners, txns, fetches, budget,
                   lastOp, lastDelivery, unsubscribed>>

(***************************************************************************)
(* Initial states                                                          *)
(***************************************************************************)
\* the state of a session after InitFirebase and AuthStateChanged
AuthedClient(c) ==
    [InitClient EXCEPT !.db = TRUE, !.isAuthReady = TRUE, !.userId = c]

\* the committed write that left document d of store st as it is
InitialCommit(st, d) ==
    [data |-> st[d], typeId |-> CHOOSE t \in TypeIds : st[d][t] = 1,
     client |-> st[d].lastUpdatedBy, attempts |-> 1]

\* On day today the store holds st.  Sessions in fresh have rendered once;
\* the others have signed in, which registered their listener and started
\* their first weekly query.  b is what the run may still do.
InitWith(fresh, b, today, st) ==
    /\ clock = today
    /\ store = st
    /\ commits = [d \in AllDates |->
                    IF d \in DOMAIN st THEN <<InitialCommit(st, d)>> ELSE <<>>]
    /\ cl = [c \in Clients |->
               [IF c \in fresh THEN InitClient ELSE AuthedClient(c)
                   EXCEPT !.TODAY_DATE = today]]
    /\ listeners = [c \in Clients |->
                      IF c \in fresh THEN {}
                      ELSE {[date |-> today,
                             seen |-> IF today \in DOMAIN st THEN 1 ELSE 0,
                             delivered |-> FALSE]}]
    /\ txns = {}
    /\ fetches = [c \in Clients |->
                    IF c \in fresh THEN {}
                    ELSE {[id |-> 1, phase |-> "sent", result |-> <<>>]}]
    /\ budget = b
    /\ lastOp = [c \in Clients |-> IF c \in fresh THEN "none" ELSE "auth"]
    /\ lastDelivery = [c \in Clients |-> [date |-> 0, ver |-> 0]]
    /\ unsubscribed = [c \in Clients |-> {}]

NoCalc == [fn |-> "none"]

\* a run of up to clicks counts, the clock and the weekly queries at their bounds
Budget(clicks) == [clicks |-> clicks, lastDay |-> MaxDate, fetches |-> MaxFetches]

(***************************************************************************)
(* The counting transactions of all sessions                               *)
(***************************************************************************)
InitTx == InitWith({}, Budget(MaxClicks), 1, EmptyObj) /\ calc = NoCalc

NextTx ==
    \/ \E c \in Clients : \E typeId \in ClickTypes : HandleCount(c, typeId)
    \/ \E t \in txns : TxGet(t)
    \/ \E t \in txns : TxCommit(t)
    \/ \E t \in txns : TxResolve(t)
    \/ \E t \in txns : TxFail(t)

SpecTx == InitTx /\ [][NextTx]_vars

(***************************************************************************)
(* One session from its first render to its unmount, the others counting   *)
(***************************************************************************)
Observed == "c1"

\* The runs explored: up to MaxAppClicks counts within one day, or one count
\* over the days up to MaxDate, or one count and up to MaxFetches weekly
\* queries in flight at once over two days.
AppBudgets ==
    {[clicks |-> MaxAppClicks, lastDay |-> 1, fetches |-> 1],
     [clicks |-> 1, lastDay |-> MaxDate, fetches |-> 1],
     [clicks |-> 1, lastDay |-> 2, fetches |-> MaxFetches]}

InitApp ==
    /\ \E b \in AppBudgets : InitWith({Observed}, b, 1, EmptyObj)
    /\ calc = NoCalc

NextApp ==
    \/ InitFirebase(Observed)
    \/ InitFirebaseFail(Observed)
    \/ AuthStateChanged(Observed)
    \/ \E l \in listeners[Observed] : \E v \in 0..MaxAppClicks : Deliver(Observed, l, v)
    \/ \E l \in listeners[Observed] : ListenerError(Observed, l)
    \/ \E c \in Clients : \E typeId \in ClickTypes : HandleCount(c, typeId)
    \/ \E t \in txns : TxGet(t)
    \/ \E t \in txns : TxCommit(t)
    \/ \E t \in txns : TxResolve(t)
    \/ \E t \in txns : TxFail(t)
    \/ \E f \in fetches[Observed] : FetchQuery(Observed, f)
    \/ \E f \in fetches[Observed] : FetchDone(Observed, f)
    \/ \E f \in fetches[Observed] : FetchFail(Observed, f)
    \/ Rerender(Observed)
    \/ Unmount(Observed)
    \/ Tick

SpecApp == InitApp /\ [][NextApp]_vars

(***************************************************************************)
(* A count that runs out of retries.  The observed session starts from its *)
(* first render and, once connected, makes the first count of the run; the *)
(* other session waits for each of its counts to settle before the next;   *)
(* a transaction is rejected only when the store has refused its last      *)
(* attempt.                                                                *)
(***************************************************************************)
\* the least number of counts of which one is refused MaxAttempts times
RetryBudget == [clicks |-> MaxAttempts + 1, lastDay |-> 1, fetches |-> 1]

\* the clicks of the run
RetryClick(c) ==
    IF c = Observed THEN cl[c].db => budget.clicks = RetryBudget.clicks
    ELSE TxIds(c) = {}

InitRetry == InitWith({Observed}, RetryBudget, 1, EmptyObj) /\ calc = NoCalc

NextRetry ==
    \/ InitFirebase(Observed)
    \/ InitFirebaseFail(Observed)
    \/ AuthStateChanged(Observed)
    \/ \E c \in Clients : \E typeId \in ClickTypes :
          RetryClick(c) /\ HandleCount(c, typeId)
    \/ \E t \in txns : TxGet(t)
    \/ \E t \in txns : TxCommit(t)
    \/ \E t \in txns : TxResolve(t)
    \/ \E t \in {u \in txns : u.phase = "failed"} : TxFail(t)

SpecRetry == InitRetry /\ [][NextRetry]_vars

(***************************************************************************)
(* Overlapping weekly fetches.  All sessions are signed in and count; the  *)
(* observed session receives the deliveries and runs its weekly fetches,   *)
(* of which up to MaxFetches are in flight at once.  Nothing fails: every  *)
(* transaction commits and every query is answered and completes.          *)
(***************************************************************************)
OverlapBudget == [clicks |-> MaxAppClicks, lastDay |-> 1, fetches |-> MaxFetches]

InitOverlap == InitWith({}, OverlapBudget, 1, EmptyObj) /\ calc = NoCalc

NextOverlap ==
    \/ \E l \in listeners[Observed] : \E v \in 0..MaxAppClicks : Deliver(Observed, l, v)
    \/ \E c \in Clients : \E typeId \in ClickTypes : HandleCount(c, typeId)
    \/ \E t \in txns : TxGet(t)
    \/ \E t \in txns : TxCommit(t)
    \/ \E t \in txns : TxResolve(t)
    \/ \E f \in fetches[Observed] : FetchQuery(Observed, f)
    \/ \E f \in fetches[Observed] : FetchDone(Observed, f)

SpecOverlap == InitOverlap /\ [][NextOverlap]_vars

(***************************************************************************)
(* The weekly query of one session against stores of up to NumDates days   *)
(***************************************************************************)
\* the document the first count of day d leaves, the category varying by day
DayOneDoc(d) ==
    NewDocData(QUESTION_TYPES[(d % Len(QUESTION_TYPES)) + 1], "c2", d, d)

InitWeekly ==
    /\ \E S \in SUBSET AllDates :
          InitWith(Clients \ {Observed}, Budget(0), NumDates, [d \in S |-> DayOneDoc(d)])
    /\ calc = NoCalc

NextWeekly ==
    \/ \E f \in fetches[Observed] : FetchQuery(Observed, f)
    \/ \E f \in fetches[Observed] : FetchDone(Observed, f)
    \/ \E f \in fetches[Observed] : FetchFail(Observed, f)

SpecWeekly == InitWeekly /\ [][NextWeekly]_vars

(***************************************************************************)
(* weeklyTotals                                                            *)
(***************************************************************************)
\* AddCount that leaves the grand total alone for a category seen before
AddCountOnce(totals, id, count) ==
    IF id \in DOMAIN totals
        THEN (id :> (totals[id] + count)) @@ totals
        ELSE (id :> count) @@ [grandTotal |-> FieldOr0(totals, "grandTotal") + count]
                 @@ totals

\* one step of the inner forEach: totals after adding count under id
AddCount(totals, id, count) ==
    (id :> (FieldOr0(totals, id) + count))
        @@ [grandTotal |-> FieldOr0(totals, "grandTotal") + count] @@ totals

\* QUESTION_TYPES.forEach(type => ...) over the types from index i on
RECURSIVE AddDay(_, _, _)
AddDay(totals, day, i) ==
    IF i > Len(QUESTION_TYPES) THEN totals
    ELSE AddDay(AddCount(totals, QUESTION_TYPES[i], FieldOr0(day, QUESTION_TYPES[i])),
                day, i + 1)

\* weeklySummary.reduce((totals, day) => ..., acc)
RECURSIVE ReduceDays(_, _)
ReduceDays(acc, days) ==
    IF days = <<>> THEN acc
    ELSE ReduceDays(AddDay(acc, Head(days), 1), Tail(days))

weeklyTotals(weeklySummary) == ReduceDays([grandTotal |-> 0], weeklySummary)

MaxDays == 2
MaxCount == 2

\* a day's entry with the category fields in present, valued by pattern k
DayEntry(present, k, date) ==
    [date |-> date] @@
    [t \in present |-> LET i == CHOOSE j \in 1..Len(QUESTION_TYPES) : QUESTION_TYPES[j] = t
                       IN  (k + i) % (MaxCount + 1)]

\* the category fields a day's entry holds: all of them, all but one, or none
PresentFields == {TypeIds \ X : X \in {{}} \cup {{t} : t \in TypeIds}} \cup {{}}

DayEntries(date) == {DayEntry(P, k, date) : P \in PresentFields, k \in 0..MaxCount}

\* the summaries of n days, oldest first
RECURSIVE SummariesOf(_)
SummariesOf(n) ==
    IF n = 0 THEN {<<>>}
    ELSE {Append(s, e) : s \in SummariesOf(n - 1), e \in DayEntries(n)}

Summaries == UNION {SummariesOf(n) : n \in 0..MaxDays}

InitTotals ==
    /\ InitWith({}, Budget(0), 1, EmptyObj)
    /\ \E s \in Summaries : calc = [fn |-> "totals", data |-> s, done |-> FALSE,
                                    out |-> EmptyObj]

ComputeTotals ==
    /\ calc.fn = "totals" /\ ~calc.done
    /\ calc' = [calc EXCEPT !.done = TRUE, !.out = weeklyTotals(calc.data)]
    /\ UNCHANGED <<clock, store, commits, cl, listeners, txns, fetches, budget,
                   lastOp, lastDelivery, unsubscribed>>

NextTotals == ComputeTotals

SpecTotals == InitTotals /\ [][NextTotals]_vars

(***************************************************************************)
(* convertToCSV.  A string is a sequence of characters, an object a        *)
(* sequence of key/value pairs in key order, a value a number or a string. *)
(***************************************************************************)
Num(n) == [t |-> "num", v |-> n]
Str(s) == [t |-> "str", v |-> s]

DigitChars == <<"0", "1", "2", "3", "4", "5", "6", "7", "8", "9">>

RECURSIVE Decimal(_)
Decimal(n) ==
    IF n < 10 THEN <<DigitChars[n + 1]>>
    ELSE Decimal(n \div 10) \o <<DigitChars[(n % 10) + 1]>>

\* '' + value
ToStr(value) == IF value.t = "num" THEN Decimal(value.v) ELSE value.v

\* Object.keys(obj)
ObjectKeys(obj) == [i \in 1..Len(obj) |-> obj[i].k]

\* obj[key]
Lookup(obj, key) ==
    IF \E i \in 1..Len(obj) : obj[i].k = key
        THEN obj[CHOOSE i \in 1..Len(obj) : obj[i].k = key].v
        ELSE Str(<<"u", "n", "d", "e", "f", "i", "n", "e", "d">>)

\* a replace that doubles the first quote only
RECURSIVE EscapeFirstQuote(_)
EscapeFirstQuote(str) ==
    IF str = <<>> THEN <<>>
    ELSE IF Head(str) = "\"" THEN <<"\"", "\"">> \o Tail(str)
    ELSE <<Head(str)>> \o EscapeFirstQuote(Tail(str))

\* str.replace(/"/g, '""')
RECURSIVE EscapeQuotes(_)
EscapeQuotes(str) ==
    IF str = <<>> THEN <<>>
    ELSE (IF Head(str) = "\"" THEN <<"\"", "\"">> ELSE <<Head(str)>>)
             \o EscapeQuotes(Tail(str))

\* `"${escaped}"` of ('' + value)
QuoteValue(value) == <<"\"">> \o EscapeQuotes(ToStr(value)) \o <<"\"">>

\* strs.join(sep)
RECURSIVE Join(_, _)
Join(strs, sep) ==
    IF strs = <<>> THEN <<>>
    ELSE IF Len(strs) = 1 THEN strs[1]
    ELSE strs[1] \o sep \o Join(Tail(strs), sep)

\* a header row quoted like the data rows
HeaderRowQuoted(headers) ==
    Join([i \in 1..Len(headers) |-> <<"\"">> \o EscapeQuotes(headers[i]) \o <<"\"">>],
         <<",">>)

\* the row pushed for the header row
HeaderRow(headers) == Join(headers, <<",">>)

\* the row pushed for one data row
DataRow(headers, row) ==
    Join([i \in 1..Len(headers) |-> QuoteValue(Lookup(row, headers[i]))], <<",">>)

convertToCSV(data) ==
    IF Len(data) = 0 THEN <<>>
    ELSE LET headers == ObjectKeys(data[1])
             csvRows == <<HeaderRow(headers)>>
                            \o [i \in 1..Len(data) |-> DataRow(headers, data[i])]
         IN  Join(csvRows, <<"\n">>)

MaxRows == 2

CsvKeyLists == {<<<<"a">>>>, <<<<"a">>, <<"b">>>>, <<<<"k", "\"">>, <<"b">>>>}

CsvValues == {Num(1), Num(2), Num(10), Str(<<"s", "\"", "h", "i", "\"">>), Str(<<",">>)}

\* the uniform objects over the key list keys
CsvObjects(keys) ==
    {[i \in 1..Len(keys) |-> [k |-> keys[i], v |-> vs[i]]] :
        vs \in [1..Len(keys) -> CsvValues]}

CsvInputs ==
    UNION {UNION {[1..n -> CsvObjects(keys)] : n \in 0..MaxRows} : keys \in CsvKeyLists}

InitCSV ==
    /\ InitWith({}, Budget(0), 1, EmptyObj)
    /\ \E d \in CsvInputs : calc = [fn |-> "csv", data |-> d, done |-> FALSE, out |-> <<>>]

ConvertCSV ==
    /\ calc.fn = "csv" /\ ~calc.done
    /\ calc' = [calc EXCEPT !.done = TRUE, !.out = convertToCSV(calc.data)]
    /\ UNCHANGED <<clock, store, commits, cl, listeners, txns, fetches, budget,
                   lastOp, lastDelivery, unsubscribed>>

NextCSV == ConvertCSV

SpecCSV == InitCSV /\ [][NextCSV]_vars

(***************************************************************************)
(* Properties of the counting transactions (SpecTx)                        *)
(***************************************************************************)
\* the document of date d, or the empty object when there is none
DocOf(d) == IF d \in DOMAIN store THEN store[d] ELSE EmptyObj

\* the number of committed increments of a log that name category t
RECURSIVE CountNaming(_, _)
CountNaming(log, t) ==
    IF log = <<>> THEN 0
    ELSE (IF Head(log).typeId = t THEN 1 ELSE 0) + CountNaming(Tail(log), t)

\* C1: no lost updates.  Whatever the interleaving of the transactions, each
\* category count of a date's document is the number of committed increments
\* naming it, and the counts sum to the number of committed increments; so m
\* further commits grow the named categories by their numbers and the sum by m.
C1_NoLostUpdates ==
    \A d \in AllDates :
        /\ \A t \in TypeIds : FieldOr0(DocOf(d), t) = CountNaming(commits[d], t)
        /\ DocTotal(DocOf(d)) = Len(commits[d])

\* all clicks were made and committed, from two sessions, one after a conflict
C1_Witness ==
    /\ txns = {} /\ budget.clicks = 0
    /\ Len(commits[1]) = MaxClicks
    /\ \E i, j \in 1..Len(commits[1]) :
          /\ commits[1][i].client # commits[1][j].client
          /\ commits[1][i].attempts > 1

\* C2: the first committed increment of a date creates the document with every
\* category field present, the named one 1 and the others 0; and when two
\* increments both started against the absent document, the counts sum to 2.
C2_CreateOnFirstIncrement ==
    \A d \in AllDates :
        /\ Len(commits[d]) >= 1 =>
              /\ d \in DOMAIN store
              /\ TypeIds \subseteq DOMAIN commits[d][1].data
              /\ \A t \in TypeIds :
                    commits[d][1].data[t] = IF t = commits[d][1].typeId THEN 1 ELSE 0
        /\ Len(commits[d]) = 1 => store[d] = commits[d][1].data
        /\ Len(commits[d]) = 2 => DocTotal(store[d]) = 2

\* two sessions both read the absent document; the second to commit retried
C2_Witness ==
    /\ Len(commits[1]) = 2
    /\ commits[1][1].client # commits[1][2].client
    /\ commits[1][1].attempts = 1
    /\ commits[1][2].attempts = 2

\* C3: every category count of every document is a non-negative integer, and
\* no step lowers a category count of a document that exists.
C3_CountsNeverDecrease ==
    /\ [](\A d \in DOMAIN store : \A t \in TypeIds :
              t \in DOMAIN store[d] /\ store[d][t] \in Nat)
    /\ [][\A d \in DOMAIN store : \A t \in TypeIds :
              d \in DOMAIN store' /\ store'[d][t] >= store[d][t]]_vars

\* a transaction that had to retry has committed on a document counting 2 or more
C3_Witness ==
    /\ 1 \in DOMAIN store
    /\ DocTotal(store[1]) >= 2
    /\ \E i \in 1..Len(commits[1]) : commits[1][i].attempts >= 2

(***************************************************************************)
(* Properties of one session (SpecApp)                                     *)
(***************************************************************************)
\* client c took a step that ran the callback op
Ran(c, op) ==
    /\ lastOp'[c] = op
    /\ \/ lastOp[c] # op
       \/ fetches'[c] # fetches[c]
       \/ lastDelivery'[c] # lastDelivery[c]
       \/ {t \in txns' : t.client = c} # {t \in txns : t.client = c}
       \/ listeners'[c] # listeners[c]

\* C4: once the unsubscribe of a listener has run, by unmount or by the
\* re-registration of the effect, no delivery from that listener changes the
\* local daily counts again, and a further unsubscribe changes nothing.
C4_UnsubscribeStopsDelivery ==
    /\ [][\A c \in Clients :
            (cl'[c].dailyCounts # cl[c].dailyCounts \/ lastDelivery'[c] # lastDelivery[c])
                => /\ cl[c].mounted
                   /\ lastDelivery'[c].date \notin unsubscribed[c]
                   /\ \E l \in listeners[c] : l.date = lastDelivery'[c].date]_vars
    /\ [](\A c \in Clients : \A d \in unsubscribed[c] :
              /\ \A l \in listeners[c] : l.date # d
              /\ Unsubscribe(listeners[c], d) = listeners[c])
    /\ [](\A c \in Clients : Cardinality(listeners[c]) <= 1)

\* the listener of day 1 delivered the absent document and was replaced by the
\* listener of day 2; the document of day 1 was created after midnight
C4_Witness ==
    /\ cl[Observed].mounted
    /\ 1 \in unsubscribed[Observed]
    /\ \E l \in listeners[Observed] : l.date = 2
    /\ lastDelivery[Observed] = [date |-> 1, ver |-> 0]
    /\ 1 \in DOMAIN store /\ store[1].createdAt = 2
    /\ cl[Observed].dailyCounts = ZeroCounts

\* the snapshot that version v of document d is for a listener
SnapshotFor(d, v) == IF v = 0 THEN ZeroCounts ELSE commits[d][v].data

C7_FetchFailureKeepsSummary ==
    [][\A c \in Clients :
          (Ran(c, "fetchFail") /\ cl[c].mounted) =>
             /\ cl'[c].weeklySummary = cl[c].weeklySummary
             /\ cl'[c].error = ErrWeekly
             /\ cl'[c].loading = FALSE]_vars

\* a fetch failed while a summary with a day in it was displayed
C7_Witness ==
    /\ lastOp[Observed] = "fetchFail"
    /\ cl[Observed].weeklySummary # <<>>
    /\ cl[Observed].error = ErrWeekly
    /\ ~cl[Observed].loading

Successes == {"countOk", "deliver", "fetchOk"}

\* the message each failing callback sets
ErrorOf(op) ==
    CASE op = "initFail" -> ErrInit
      [] op = "listenErr" -> ErrListen
      [] op = "noDb" -> ErrNoDb
      [] op = "countFail" -> ErrCount
      [] op = "fetchFail" -> ErrWeekly

Failures == {"initFail", "listenErr", "noDb", "countFail", "fetchFail"}

\* C10 as stated: after any successful operation (increment, delivery, weekly
\* fetch) the error message is empty.
C10_AnySuccessClearsError ==
    \A c \in Clients : lastOp[c] \in Successes => cl[c].error = NoError

\* C10, amended: the error message is the one the most recent failure set; a
\* successful increment clears it, whereas a successful delivery and a
\* successful weekly fetch leave it as it was.
C10_OnlyIncrementClearsError ==
    /\ [](\A c \in Clients :
            /\ lastOp[c] = "countOk" => cl[c].error = NoError
            /\ lastOp[c] \in Failures => cl[c].error = ErrorOf(lastOp[c]))
    /\ [][\A c \in Clients :
            (Ran(c, "deliver") \/ Ran(c, "fetchOk")) => cl'[c].error = cl[c].error]_vars

\* a weekly fetch succeeded and the message of an earlier failure is still shown
C10_Witness ==
    /\ lastOp[Observed] = "fetchOk"
    /\ cl[Observed].error = ErrListen
    /\ cl[Observed].weeklySummary # <<>>

\* the success callback of onSnapshot ran in session c
Delivered(c) == lastDelivery'[c] # lastDelivery[c]

\* C12: every delivery to a session whose database and authentication are
\* ready starts a fresh weekly fetch, and the weekly summary changes only
\* when a weekly fetch completes, to the data that fetch was answered with.
C12_DeliveryStartsFetch ==
    [][\A c \in Clients :
          /\ (Delivered(c) /\ cl[c].db /\ cl[c].isAuthReady) =>
                /\ \E f \in fetches'[c] \ fetches[c] : f.phase = "sent"
                /\ cl'[c].loading
          /\ cl'[c].weeklySummary # cl[c].weeklySummary =>
                \E f \in fetches[c] \ fetches'[c] :
                    /\ f.phase = "replied"
                    /\ cl'[c].weeklySummary = WeeklyData(f.result)]_vars

\* a count was delivered after an earlier fetch had filled the summary, and
\* the fetch the delivery started is in flight
C12_Witness ==
    /\ lastOp[Observed] = "deliver"
    /\ lastDelivery[Observed].ver >= 1
    /\ cl[Observed].weeklySummary # <<>>
    /\ cl[Observed].loading
    /\ \E f \in fetches[Observed] : f.phase = "sent"

(***************************************************************************)
(* Properties of a failed count (SpecRetry)                                *)
(***************************************************************************)
\* handleCount of session c returns at its first line: there is no connection
CountRefused(c) ==
    /\ ~cl[c].db
    /\ lastOp'[c] = "noDb"
    /\ lastOp[c] # "noDb"

\* runTransaction of session c rejects without having committed
CountFailed(c) ==
    \E t \in txns : /\ t.client = c
                    /\ t.phase # "committed"
                    /\ txns' = txns \ {t}

\* C11: a failed increment changes no count.  When handleCount is called
\* with no database connection, or its transaction is rejected after the
\* store refused its last attempt, the stored documents and the session's
\* local daily counts are unchanged and an error message is set.
C11_FailedIncrementChangesNoCount ==
    [][\A c \in Clients :
          /\ CountRefused(c) =>
                /\ store' = store
                /\ cl'[c].dailyCounts = cl[c].dailyCounts
                /\ cl'[c].error = ErrNoDb
          /\ CountFailed(c) =>
                /\ store' = store
                /\ cl'[c].dailyCounts = cl[c].dailyCounts
                /\ cl'[c].error = ErrCount]_vars

\* the observed session's count was refused MaxAttempts times, each time
\* because the other session had committed, and its catch block has run
C11_Witness ==
    /\ lastOp[Observed] = "countFail"
    /\ cl[Observed].error = ErrCount
    /\ Len(commits[1]) = MaxAttempts
    /\ \A k \in 1..MaxAttempts : commits[1][k].client # Observed
    /\ store[1].lastUpdatedBy # Observed

(***************************************************************************)
(* Properties of overlapping weekly fetches (SpecOverlap)                  *)
(***************************************************************************)
\* no write is in flight, session c has been delivered the last version of
\* today's document, and none of its weekly fetches is outstanding
Settled(c) ==
    /\ cl[c].mounted /\ cl[c].db /\ cl[c].isAuthReady
    /\ txns = {}
    /\ fetches[c] = {}
    /\ \E l \in listeners[c] : /\ l.date = cl[c].TODAY_DATE
                               /\ l.delivered
                               /\ l.seen = Version(l.date)

\* the weekly summary of session c has today's document as its entry of today
SummaryShowsToday(c) ==
    LET d == cl[c].TODAY_DATE
        ws == cl[c].weeklySummary
    IN  IF d \in DOMAIN store
        THEN \E i \in 1..Len(ws) : ws[i] = store[d] @@ [date |-> d]
        ELSE \A i \in 1..Len(ws) : ws[i].date # d

\* C13: weekly fetches may overlap and the summary ends up consistent anyway.
\* Once the writes have stopped, the last change has been delivered and every
\* outstanding weekly fetch has completed successfully, in whatever order,
\* the weekly summary's entry for today equals the store's document for today.
C13_SummaryConsistentAfterOverlap ==
    \A c \in Clients : Settled(c) => SummaryShowsToday(c)

(***************************************************************************)
(* Properties of the weekly query (SpecWeekly)                             *)
(***************************************************************************)
Min(a, b) == IF a < b THEN a ELSE b

RECURSIVE FieldSum(_, _)
FieldSum(days, t) ==
    IF days = <<>> THEN 0
    ELSE FieldOr0(days[Len(days)], t) + FieldSum(SubSeq(days, 1, Len(days) - 1), t)

RECURSIVE SumOver(_, _)
SumOver(f, S) ==
    IF S = {} THEN 0
    ELSE LET x == CHOOSE y \in S : TRUE IN f[x] + SumOver(f, S \ {x})

\* C8: for every weekly summary, with category fields present or missing, the
\* grand total is the sum of the per-category totals and each per-category
\* total is the sum of that category's field over the days.
C8_TotalsAddUp ==
    (calc.fn = "totals" /\ calc.done) =>
        LET perCategory == [t \in TypeIds |-> FieldOr0(calc.out, t)]
        IN  /\ \A t \in TypeIds : perCategory[t] = FieldSum(calc.data, t)
            /\ calc.out.grandTotal = SumOver(perCategory, TypeIds)

\* two days, each with a field missing that the other has, and a total above 0
C8_Witness ==
    /\ calc.fn = "totals" /\ calc.done
    /\ Len(calc.data) = 2
    /\ "research" \in DOMAIN calc.data[1] /\ "research" \notin DOMAIN calc.data[2]
    /\ "directional" \notin DOMAIN calc.data[1] /\ "directional" \in DOMAIN calc.data[2]
    /\ calc.out.grandTotal >= 3

(***************************************************************************)
(* Properties of convertToCSV (SpecCSV)                                    *)
(***************************************************************************)
Quote == "\""

\* str between double quotes, each of its double quotes doubled
RECURSIVE Doubled(_, _)
Doubled(str, i) ==
    IF i > Len(str) THEN <<>>
    ELSE (IF str[i] = Quote THEN <<Quote, Quote>> ELSE <<str[i]>>) \o Doubled(str, i + 1)

Wrapped(str) == <<Quote>> \o Doubled(str, 1) \o <<Quote>>

\* the concatenation of the fields i..n of a row, a comma after each but the last
RECURSIVE Fields(_, _, _)
Fields(field, i, n) ==
    IF i > n THEN <<>>
    ELSE field[i] \o (IF i < n THEN <<",">> ELSE <<>>) \o Fields(field, i + 1, n)

\* the concatenation of the lines i..n, a newline before each but the first
RECURSIVE Lines(_, _, _)
Lines(line, i, n) ==
    IF i > n THEN <<>>
    ELSE (IF i > 1 THEN <<"\n">> ELSE <<>>) \o line[i] \o Lines(line, i + 1, n)

\* the text of a value: a number in decimal digits, a string as it is
TextOf(value) ==
    IF value.t = "str" THEN value.v
    ELSE IF value.v = 1 THEN <<"1">>
    ELSE IF value.v = 2 THEN <<"2">>
    ELSE <<"1", "0">>

\* the CSV text of data whose header fields are header(key)
CsvText(data, header(_)) ==
    IF data = <<>> THEN <<>>
    ELSE LET keys == [i \in 1..Len(data[1]) |-> data[1][i].k]
             n == Len(keys)
             line == [r \in 1..(Len(data) + 1) |->
                        IF r = 1 THEN Fields([i \in 1..n |-> header(keys[i])], 1, n)
                        ELSE Fields([i \in 1..n |-> Wrapped(TextOf(data[r - 1][i].v))],
                                    1, n)]
         IN  Lines(line, 1, Len(data) + 1)

Bare(str) == str

\* [{a: 1, b: 2}]
ExampleAB == <<<<[k |-> <<"a">>, v |-> Num(1)], [k |-> <<"b">>, v |-> Num(2)]>>>>

\* C9 as stated: every field of every row, the header row included, is wrapped
\* in double quotes with its quotes doubled; [{a:1,b:2}] gives "a","b" \n "1","2".
C9_AllFieldsQuoted ==
    (calc.fn = "csv" /\ calc.done) =>
        /\ calc.out = CsvText(calc.data, Wrapped)
        /\ calc.data = ExampleAB =>
              calc.out = <<Quote, "a", Quote, ",", Quote, "b", Quote, "\n",
                           Quote, "1", Quote, ",", Quote, "2", Quote>>

\* C9, amended: the empty sequence gives the empty string; otherwise the header
\* row is the keys of the first record as they are, neither quoted nor escaped,
\* and each data row has every field wrapped in double quotes with its quotes
\* doubled; rows are joined by newline, fields by comma; [{a:1,b:2}] gives
\* a,b \n "1","2".
C9_DataFieldsQuoted ==
    (calc.fn = "csv" /\ calc.done) =>
        /\ calc.data = <<>> => calc.out = <<>>
        /\ calc.out = CsvText(calc.data, Bare)
        /\ calc.data = ExampleAB =>
              calc.out = <<"a", ",", "b", "\n",
                           Quote, "1", Quote, ",", Quote, "2", Quote>>

\* two records whose key and value both hold a double quote were converted
C9_Witness ==
    /\ calc.fn = "csv" /\ calc.done
    /\ Len(calc.data) = 2
    /\ calc.data[1][1].k = <<"k", Quote>>
    /\ calc.data[1][1].v = Str(<<"s", Quote, "h", "i", Quote>>)
    /\ calc.data[2][2].v = Str(<<",">>)
    /\ calc.out # <<>>

====
